---- MODULE Spec2Model ----
(***************************************************************************)
(* Model of the LinkedIn profile discovery pipeline                        *)
(* (src/linkedin_profile_finder.py) and of the single-URL lookup route     *)
(* (src/main.py).                                                          *)
(*                                                                         *)
(* Python str values are TLA+ strings; characters are one-character        *)
(* strings obtained with SubSeq.  Optional[str] is a tuple: <<>> is None   *)
(* and <<s>> is the string s.  Scores are kept in hundredths (0.6 is 60):  *)
(* the seven values the float arithmetic of score_candidate can produce    *)
(* (0.6 0.7 0.75 0.85 0.9 0.95 1.0) are ordered exactly as their           *)
(* hundredths are.                                                         *)
(***************************************************************************)
EXTENDS Integers, Sequences, FiniteSets, TLC

VARIABLES
    pc,            \* position of the running call
    person,        \* PersonInput of the discovery call
    queries,       \* the list [pass A, pass B, pass C]
    qi,            \* index of the next query of the for loop
    results,       \* results of the last search_provider.search call
    urls,          \* the (score, url) pairs of extract_considered_profile_urls
    calls,         \* passes on which the provider was invoked, in order
    ret,           \* value returned by the call
    exc,           \* exception that left the call, "" when none
    url,           \* argument of normalize_linkedin_profile_url
    normalized,    \* its result
    renormalized,  \* result of normalizing that result again
    api_key,       \* SERPAPI_API_KEY
    profile_url,   \* str(request.profile_url)
    serp,          \* what requests.get / serp_resp produced
    provider_calls,\* number of requests.get calls of the lookup
    best,          \* the result pick_best_linkedin_result chose
    response       \* LinkedInLookupResponse

vars == <<pc, person, queries, qi, results, urls, calls, ret, exc,
          url, normalized, renormalized,
          api_key, profile_url, serp, provider_calls, best, response>>

finderVars == <<person, queries, qi, results, urls, calls, ret>>
normVars   == <<url, normalized, renormalized>>
lookupVars == <<api_key, profile_url, serp, provider_calls, best, response>>

-----------------------------------------------------------------------------
(* Optional values *)

None == <<>>
Some(s) == <<s>>
Val(o) == o[1]
\* Python truthiness of an Optional[str]: neither None nor ""
Truthy(o) == o # None /\ Val(o) # ""
\* (x or "")
OrEmpty(o) == IF Truthy(o) THEN Val(o) ELSE ""

-----------------------------------------------------------------------------
(* str primitives *)

LOWERS == "abcdefghijklmnopqrstuvwxyz"
UPPERS == "ABCDEFGHIJKLMNOPQRSTUVWXYZ"
DIGITS == "0123456789"

Ch(s, i) == SubSeq(s, i, i)

Chars(s) == {Ch(s, i) : i \in 1..Len(s)}

LOWER_SET == Chars(LOWERS)
UPPER_SET == Chars(UPPERS)
DIGIT_SET == Chars(DIGITS)

IsSpace(c) == c \in {" ", "\t"}

LOWER_OF ==
    [c \in UPPER_SET |-> Ch(LOWERS, CHOOSE i \in 1..Len(UPPERS) : Ch(UPPERS, i) = c)]

LowerChar(c) == IF c \in UPPER_SET THEN LOWER_OF[c] ELSE c

\* s[lo..hi] lower-cased (the range is halved to keep the recursion shallow)
RECURSIVE LowerRange(_, _, _)
LowerRange(s, lo, hi) ==
    IF lo > hi THEN ""
    ELSE IF lo = hi THEN LowerChar(Ch(s, lo))
    ELSE LowerRange(s, lo, (lo + hi) \div 2) \o LowerRange(s, (lo + hi) \div 2 + 1, hi)

\* s.lower()
Lower(s) == LowerRange(s, 1, Len(s))

StartsWith(s, p) == Len(p) <= Len(s) /\ SubSeq(s, 1, Len(p)) = p

\* sub in s
Contains(s, sub) ==
    \E i \in 0..(Len(s) - Len(sub)) : SubSeq(s, i + 1, i + Len(sub)) = sub

\* s.find(sub): position (from 1) of the first occurrence, 0 when absent
Find(s, sub) ==
    IF Contains(s, sub)
    THEN 1 + CHOOSE i \in 0..(Len(s) - Len(sub)) :
                /\ SubSeq(s, i + 1, i + Len(sub)) = sub
                /\ \A j \in 0..(i - 1) : SubSeq(s, j + 1, j + Len(sub)) # sub
    ELSE 0

\* s.split(sep, 1)
Split1(s, sep) ==
    IF Contains(s, sep)
    THEN <<SubSeq(s, 1, Find(s, sep) - 1),
           SubSeq(s, Find(s, sep) + Len(sep), Len(s))>>
    ELSE <<s>>

\* s.split(sep)
RECURSIVE Split(_, _)
Split(s, sep) ==
    IF Contains(s, sep)
    THEN <<Split1(s, sep)[1]>> \o Split(Split1(s, sep)[2], sep)
    ELSE <<s>>

\* s.replace(old, "")
RECURSIVE Remove(_, _)
Remove(s, old) ==
    IF Contains(s, old)
    THEN Split1(s, old)[1] \o Remove(Split1(s, old)[2], old)
    ELSE s

RECURSIVE LStrip(_)
LStrip(s) == IF s # "" /\ IsSpace(Ch(s, 1)) THEN LStrip(Tail(s)) ELSE s

RECURSIVE RStrip(_)
RStrip(s) ==
    IF s # "" /\ IsSpace(Ch(s, Len(s)))
    THEN RStrip(SubSeq(s, 1, Len(s) - 1))
    ELSE s

\* s.strip()
Strip(s) == RStrip(LStrip(s))

\* what re.sub(r"\s+", " ", s) leaves of s[lo..hi]: the first character of a
\* whitespace run becomes one space, the rest of the run disappears
RECURSIVE CollapseRange(_, _, _)
CollapseRange(s, lo, hi) ==
    IF lo > hi THEN ""
    ELSE IF lo = hi
         THEN (IF ~IsSpace(Ch(s, lo)) THEN Ch(s, lo)
               ELSE IF lo > 1 /\ IsSpace(Ch(s, lo - 1)) THEN "" ELSE " ")
    ELSE CollapseRange(s, lo, (lo + hi) \div 2)
            \o CollapseRange(s, (lo + hi) \div 2 + 1, hi)

\* re.sub(r"\s+", " ", s)
CollapseWs(s) == CollapseRange(s, 1, Len(s))

\* " ".join(parts)
RECURSIVE Join(_)
Join(parts) ==
    IF parts = <<>> THEN ""
    ELSE IF Len(parts) = 1 THEN parts[1]
    ELSE parts[1] \o " " \o Join(Tail(parts))

-----------------------------------------------------------------------------
(* URL normalization *)

SCHEME_CHARS == LOWER_SET \cup UPPER_SET \cup DIGIT_SET \cup {"+", "-", "."}

SchemeChar(c) == c \in SCHEME_CHARS

\* position of the first of "/?#" in s, Len(s)+1 when there is none
NetlocEnd(s) ==
    IF \E i \in 1..Len(s) : Ch(s, i) \in {"/", "?", "#"}
    THEN CHOOSE i \in 1..Len(s) :
            /\ Ch(s, i) \in {"/", "?", "#"}
            /\ \A j \in 1..(i - 1) : Ch(s, j) \notin {"/", "?", "#"}
    ELSE Len(s) + 1

\* the scheme of urlsplit: url[:i].lower() when url[:i] is a scheme, else ""
SplitScheme(u) ==
    LET i == Find(u, ":")
    IN  IF /\ i > 1
           /\ Ch(u, 1) \in LOWER_SET \cup UPPER_SET
           /\ \A j \in 1..(i - 1) : SchemeChar(Ch(u, j))
        THEN <<Lower(SubSeq(u, 1, i - 1)), SubSeq(u, i + 1, Len(u))>>
        ELSE <<"", u>>

\* netloc and the rest
SplitNetloc(u) ==
    IF StartsWith(u, "//")
    THEN LET r == SubSeq(u, 3, Len(u))
             e == NetlocEnd(r)
         IN  <<SubSeq(r, 1, e - 1), SubSeq(r, e, Len(r))>>
    ELSE <<"", u>>

\* _splitparams
SplitParams(p) ==
    IF ~Contains(p, ";") THEN <<p, "">>
    ELSE LET slash == IF Contains(p, "/")
                      THEN CHOOSE i \in 1..Len(p) :
                              Ch(p, i) = "/" /\ \A j \in (i + 1)..Len(p) : Ch(p, j) # "/"
                      ELSE 0
             tail  == SubSeq(p, slash + 1, Len(p))
         IN  IF Contains(tail, ";")
             THEN <<SubSeq(p, 1, slash + Find(tail, ";") - 1),
                    SubSeq(p, slash + Find(tail, ";") + 1, Len(p))>>
             ELSE <<p, "">>

\* urllib.parse.urlparse; ok = FALSE stands for the ValueError of an
\* unbalanced bracket in the netloc.  urlsplit removes tab, CR and LF and
\* leading blanks before it splits, so the inputs here hold none of them
urlparse(u) ==
    LET s  == SplitScheme(u)
        n  == SplitNetloc(s[2])
        f  == Split1(n[2], "#")
        q  == Split1(f[1], "?")
        pp == SplitParams(q[1])
    IN  [ok       |-> Contains(n[1], "[") = Contains(n[1], "]"),
         scheme   |-> s[1],
         netloc   |-> n[1],
         path     |-> pp[1],
         params   |-> pp[2],
         query    |-> IF Len(q) = 2 THEN q[2] ELSE "",
         fragment |-> IF Len(f) = 2 THEN f[2] ELSE ""]

\* urlunparse((scheme, netloc, path, "", "", "")) with a non-empty netloc
urlunparse(scheme, netloc, path) ==
    scheme \o ":" \o "//" \o netloc
           \o (IF path # "" /\ Ch(path, 1) # "/" THEN "/" ELSE "") \o path

\* the path kept with its trailing slash
StripTrailingSlashes_Kept(s) == s

\* re.sub(r"/+$", "", s)
RECURSIVE StripTrailingSlashes(_)
StripTrailingSlashes(s) ==
    IF s # "" /\ Ch(s, Len(s)) = "/"
    THEN StripTrailingSlashes(SubSeq(s, 1, Len(s) - 1))
    ELSE s

\* _PROFILE_RE.match(path): ^/(in|pub)/[^/]+/?$ with re.IGNORECASE
PROFILE_RE_match(path) ==
    \E m \in {"/in/", "/pub/"} :
        /\ StartsWith(Lower(path), m)
        /\ LET rest == SubSeq(path, Len(m) + 1, Len(path))
               seg  == IF rest # "" /\ Ch(rest, Len(rest)) = "/"
                       THEN SubSeq(rest, 1, Len(rest) - 1)
                       ELSE rest
           IN  seg # "" /\ ~Contains(seg, "/")

normalize_linkedin_profile_url(u) ==
    LET p == urlparse(u)
    IN  IF ~p.ok THEN None
        ELSE IF ~Contains(p.netloc, "linkedin.com") THEN None
        ELSE IF ~PROFILE_RE_match(p.path) THEN None
        ELSE Some(urlunparse("https", "www.linkedin.com",
                             StripTrailingSlashes(p.path) \o "/"))

-----------------------------------------------------------------------------
(* Query builders *)

\* PersonInput
Person(fn, em, loc, role, org) ==
    [full_name |-> fn, email |-> em, location |-> loc,
     title_or_role |-> role, company_or_university |-> org]

Quoted(s) == "\"" \o s \o "\""

NEGATIVE_FILTERS ==
    <<"-inurl:/company/", "-inurl:/posts/", "-inurl:/jobs/", "-inurl:/pulse/",
      "-inurl:/learning/", "-inurl:/groups/", "-inurl:/directory/",
      "-inurl:/school/">>

RECURSIVE QuotedTerms(_)
QuotedTerms(ts) ==
    IF ts = <<>> THEN <<>>
    ELSE (IF Truthy(Head(ts)) /\ Strip(Val(Head(ts))) # ""
          THEN <<Quoted(Strip(Val(Head(ts))))>>
          ELSE <<>>) \o QuotedTerms(Tail(ts))

_quoted_optional_terms(p) ==
    QuotedTerms(<<p.company_or_university, p.title_or_role, p.location>>)

build_query_pass_a(p) ==
    Strip(CollapseWs(Join(
        <<"site:linkedin.com/in", Quoted(Strip(Val(p.full_name)))>>
            \o _quoted_optional_terms(p) \o NEGATIVE_FILTERS)))

build_query_pass_b(p) ==
    IF ~Truthy(p.email) THEN ""
    ELSE build_query_pass_a(p) \o " " \o Strip(Val(p.email))

build_query_pass_c(p) ==
    Strip(CollapseWs(Join(
        <<"site:linkedin.com", "\"linkedin.com/in/\"",
          Quoted(Strip(Val(p.full_name)))>>
            \o _quoted_optional_terms(p) \o NEGATIVE_FILTERS)))

-----------------------------------------------------------------------------
(* Text matcher *)

RECURSIVE BlankRange(_, _, _)
BlankRange(s, lo, hi) ==
    IF lo > hi THEN ""
    ELSE IF lo = hi
         THEN (IF Ch(s, lo) \in LOWER_SET \cup DIGIT_SET \/ IsSpace(Ch(s, lo))
               THEN Ch(s, lo) ELSE " ")
    ELSE BlankRange(s, lo, (lo + hi) \div 2) \o BlankRange(s, (lo + hi) \div 2 + 1, hi)

\* re.sub(r"[^a-z0-9\s]", " ", s)
BlankNonAlnum(s) == BlankRange(s, 1, Len(s))

_normalize_text(s) == Strip(CollapseWs(BlankNonAlnum(Lower(s))))

\* the name gate left open
title_contains_full_name_Open(title, full_name) == TRUE

title_contains_full_name(title, full_name) ==
    Contains(_normalize_text(title), _normalize_text(full_name))

-----------------------------------------------------------------------------
(* Candidate scoring and extraction *)

\* SearchResult
Result(t, l, s) == [title |-> t, link |-> l, snippet |-> s]

BASELINE == 60
FIELD_BONUS == 15
EMAIL_BONUS == 35
LINK_BONUS == 10
MAX_SCORE == 100

Min(a, b) == IF a <= b THEN a ELSE b

\* field and field.lower() in text
FieldMatches(field, text) == Truthy(field) /\ Contains(text, Lower(Val(field)))

\* the sum before the clamp
RawScore(p, r) ==
    LET text == Lower(r.title \o " " \o r.snippet)
        B(f, bonus) == IF FieldMatches(f, text) THEN bonus ELSE 0
    IN  BASELINE
        + B(p.company_or_university, FIELD_BONUS)
        + B(p.title_or_role, FIELD_BONUS)
        + B(p.location, FIELD_BONUS)
        + B(p.email, EMAIL_BONUS)
        + (IF Contains(r.link, "/in/") THEN LINK_BONUS ELSE 0)

\* the score without its clamp
score_candidate_Unclamped(p, r) == RawScore(p, r)

score_candidate(p, r) == Min(RawScore(p, r), MAX_SCORE)

\* the result survives the name gate and the normalization
IsCandidate(p, r) ==
    /\ title_contains_full_name(r.title, Val(p.full_name))
    /\ normalize_linkedin_profile_url(r.link) # None

\* the loop that fills urls: List[Tuple[float, str]]
RECURSIVE CollectCandidates(_, _)
CollectCandidates(p, rs) ==
    IF rs = <<>> THEN <<>>
    ELSE (IF IsCandidate(p, Head(rs))
          THEN <<<<score_candidate(p, Head(rs)),
                   Val(normalize_linkedin_profile_url(Head(rs).link))>>>>
          ELSE <<>>) \o CollectCandidates(p, Tail(rs))

\* a sort that is not stable: x is placed before the elements of equal score
RECURSIVE InsertDesc_Unstable(_, _)
InsertDesc_Unstable(sorted, x) ==
    IF sorted = <<>> THEN <<x>>
    ELSE IF Head(sorted)[1] > x[1]
         THEN <<Head(sorted)>> \o InsertDesc_Unstable(Tail(sorted), x)
         ELSE <<x>> \o sorted

\* x is placed after every element whose score is at least its own
RECURSIVE InsertDesc(_, _)
InsertDesc(sorted, x) ==
    IF sorted = <<>> THEN <<x>>
    ELSE IF Head(sorted)[1] >= x[1]
         THEN <<Head(sorted)>> \o InsertDesc(Tail(sorted), x)
         ELSE <<x>> \o sorted

\* sorted(urls, key=lambda x: x[0], reverse=True), a stable sort
RECURSIVE SortedByScoreDesc(_)
SortedByScoreDesc(us) ==
    IF us = <<>> THEN <<>>
    ELSE InsertDesc(SortedByScoreDesc(SubSeq(us, 1, Len(us) - 1)), us[Len(us)])

\* the seen / ordered_urls loop
RECURSIVE DedupeUrls(_, _)
DedupeUrls(us, seen) ==
    IF us = <<>> THEN <<>>
    ELSE IF Head(us)[2] \in seen
         THEN DedupeUrls(Tail(us), seen)
         ELSE <<Head(us)[2]>> \o DedupeUrls(Tail(us), seen \cup {Head(us)[2]})

extract_considered_profile_urls(p, rs) ==
    DedupeUrls(SortedByScoreDesc(CollectCandidates(p, rs)), {})

-----------------------------------------------------------------------------
(* Values of the variables a specification does not use *)

finderIdle ==
    /\ person = None /\ queries = <<>> /\ qi = 0 /\ results = <<>>
    /\ urls = <<>> /\ calls = <<>> /\ ret = <<>>
normIdle == url = "" /\ normalized = None /\ renormalized = None
lookupIdle ==
    /\ api_key = "" /\ profile_url = "" /\ serp = <<>>
    /\ provider_calls = 0 /\ best = <<>> /\ response = <<>>

-----------------------------------------------------------------------------
(* extract_considered_profile_urls on its own *)

MaxResults == 3

ExtractPersons ==
    {Person(Some("Al B"), None, None, None, None),
     Person(Some("Al B"), None, None, Some("CEO"), None),
     Person(Some("Al B"), None, Some("Rome"), None, Some("IBM")),
     Person(Some("Al B"), Some("a@b.c"), None, Some("CEO"), None),
     Person(Some("Al B"), Some("a@b.c"), Some("Rome"), Some("CEO"), Some("IBM"))}

ResultPool ==
    {Result("Al B - CEO | LinkedIn", "https://linkedin.com/in/alb", ""),
     Result("AL. B", "http://www.linkedin.com/in/alb/?x=1", "Ceo at IBM, Rome a@b.c"),
     Result("Al B", "https://il.linkedin.com/pub/al-b", "ibm"),
     Result("al b", "https://linkedin.com/in/al2", ""),
     Result("Bo C", "https://linkedin.com/in/boc", "CEO IBM Rome a@b.c"),
     Result("Al B", "https://linkedin.com/company/ibm", "IBM")}

ListsOver(pool, n) == UNION {[1..k -> pool] : k \in 0..n}

ExtractInit ==
    /\ pc = "start" /\ exc = ""
    /\ person \in ExtractPersons
    /\ results \in ListsOver(ResultPool, MaxResults)
    /\ queries = <<>> /\ qi = 0 /\ urls = <<>> /\ calls = <<>> /\ ret = <<>>
    /\ normIdle /\ lookupIdle

ExtractConsidered ==
    /\ pc = "start"
    /\ urls' = CollectCandidates(person, results)
    /\ ret' = extract_considered_profile_urls(person, results)
    /\ pc' = "done"
    /\ UNCHANGED <<person, queries, qi, results, calls, exc, normVars, lookupVars>>

ExtractNext == ExtractConsidered

SpecExtract == ExtractInit /\ [][ExtractNext]_vars

-----------------------------------------------------------------------------
(* linkedin_profile_finder *)

MaxProviderResults == 1

FinderPersons ==
    {Person(fn, em, loc, role, org) :
        fn \in {None, Some(""), Some(" "), Some("Al B"), Some(" al  b\t")},
        em \in {None, Some(""), Some(" "), Some("a@b.c"), Some(" a@b.c "),
                Some("a@b.c  x")},
        loc \in {None, Some("New  York")},
        role \in {None, Some("CEO")},
        org \in {None, Some(" "), Some("IBM ")}}

ProviderPool ==
    {Result("Al B | LinkedIn", "https://linkedin.com/in/alb", ""),
     Result("Bo C", "https://linkedin.com/in/boc", "")}

PASSES == <<"A", "B", "C">>

\* the check without its strip(): not full_name
name_is_blank_NoStrip(full_name) == ~Truthy(full_name)

\* not full_name or not full_name.strip()
name_is_blank(full_name) ==
    IF ~Truthy(full_name) THEN TRUE ELSE Strip(Val(full_name)) = ""

FinderInit ==
    /\ pc = "start" /\ exc = ""
    /\ person \in FinderPersons
    /\ queries = <<>> /\ qi = 0 /\ results = <<>> /\ urls = <<>>
    /\ calls = <<>> /\ ret = <<>>
    /\ normIdle /\ lookupIdle

\* raise ValueError("full_name is required")
FinderReject ==
    /\ pc = "start"
    /\ name_is_blank(person.full_name)
    /\ exc' = "ValueError"
    /\ pc' = "raised"
    /\ UNCHANGED <<finderVars, normVars, lookupVars>>

FinderBuildQueries ==
    /\ pc = "start"
    /\ ~name_is_blank(person.full_name)
    /\ queries' = <<build_query_pass_a(person), build_query_pass_b(person),
                    build_query_pass_c(person)>>
    /\ qi' = 1
    /\ pc' = "loop"
    /\ UNCHANGED <<person, results, urls, calls, ret, exc, normVars, lookupVars>>

\* if not q: continue
FinderSkip ==
    /\ pc = "loop" /\ qi <= Len(queries)
    /\ queries[qi] = ""
    /\ qi' = qi + 1
    /\ UNCHANGED <<pc, person, queries, results, urls, calls, ret, exc,
                   normVars, lookupVars>>

\* the loop without its break: the next pass follows a non-empty result
FinderSearch_NoBreak ==
    /\ pc = "loop" /\ qi <= Len(queries)
    /\ queries[qi] # ""
    /\ \E rs \in ListsOver(ProviderPool, MaxProviderResults) :
        /\ results' = rs
        /\ calls' = Append(calls, [pass |-> PASSES[qi], query |-> queries[qi],
                                   raised |-> FALSE, returned |-> rs])
    /\ pc' = "loop" /\ qi' = qi + 1
    /\ UNCHANGED <<person, queries, urls, ret, exc, normVars, lookupVars>>

\* results = search_provider.search(q, ...); if results: break
FinderSearch ==
    /\ pc = "loop" /\ qi <= Len(queries)
    /\ queries[qi] # ""
    /\ \E rs \in ListsOver(ProviderPool, MaxProviderResults) :
        /\ results' = rs
        /\ calls' = Append(calls, [pass |-> PASSES[qi], query |-> queries[qi],
                                   raised |-> FALSE, returned |-> rs])
        /\ IF rs # <<>>
           THEN pc' = "extract" /\ qi' = qi
           ELSE pc' = "loop" /\ qi' = qi + 1
    /\ UNCHANGED <<person, queries, urls, ret, exc, normVars, lookupVars>>

\* the provider raises; nothing catches it
FinderSearchRaises ==
    /\ pc = "loop" /\ qi <= Len(queries)
    /\ queries[qi] # ""
    /\ calls' = Append(calls, [pass |-> PASSES[qi], query |-> queries[qi],
                               raised |-> TRUE, returned |-> <<>>])
    /\ exc' = "ProviderError"
    /\ pc' = "raised"
    /\ UNCHANGED <<person, queries, qi, results, urls, ret, normVars, lookupVars>>

FinderExtract ==
    /\ pc = "extract" \/ (pc = "loop" /\ qi > Len(queries))
    /\ urls' = CollectCandidates(person, results)
    /\ ret' = extract_considered_profile_urls(person, results)
    /\ pc' = "done"
    /\ UNCHANGED <<person, queries, qi, results, calls, exc, normVars, lookupVars>>

FinderNext ==
    \/ FinderReject
    \/ FinderBuildQueries
    \/ FinderSkip
    \/ FinderSearch
    \/ FinderSearchRaises
    \/ FinderExtract

Spec == FinderInit /\ [][FinderNext]_vars

-----------------------------------------------------------------------------
(* Normalizer on its own: one URL is normalized, and its result again *)

UrlSchemes == {"https://", "http://", "HTTPS://", "//", ""}
UrlHosts   == {"linkedin.com", "www.linkedin.com", "il.linkedin.com",
               "LinkedIn.com", "example.com", "[linkedin.com"}
UrlMarkers == {"/in/", "/IN/", "/pub/", "/Pub/", "/company/", "/"}
UrlSlugs   == {"", "al", "al-b c"}
UrlTails   == {"", "/", "//", "/x", "?q=1", "#f", ";p", "/;p", "/?q#f"}

UrlInputs ==
    {s \o h \o m \o g \o t :
        s \in UrlSchemes, h \in UrlHosts, m \in UrlMarkers,
        g \in UrlSlugs, t \in UrlTails}

NormInit ==
    /\ pc = "start" /\ exc = ""
    /\ url \in UrlInputs
    /\ normalized = None /\ renormalized = None
    /\ finderIdle /\ lookupIdle

Normalize ==
    /\ pc = "start"
    /\ normalized' = normalize_linkedin_profile_url(url)
    /\ pc' = "normalized"
    /\ UNCHANGED <<url, renormalized, exc, finderVars, lookupVars>>

Renormalize ==
    /\ pc = "normalized"
    /\ normalized # None
    /\ renormalized' = normalize_linkedin_profile_url(Val(normalized))
    /\ pc' = "renormalized"
    /\ UNCHANGED <<url, normalized, exc, finderVars, lookupVars>>

NormNext == Normalize \/ Renormalize

SpecNormalize == NormInit /\ [][NormNext]_vars

CANONICAL_PREFIX == "https://www.linkedin.com"

\* u is CANONICAL_PREFIX, a marker, one non-empty segment without / ? #,
\* and one slash
CanonicalWith(u, m) ==
    /\ StartsWith(u, CANONICAL_PREFIX \o m)
    /\ LET rest == SubSeq(u, Len(CANONICAL_PREFIX \o m) + 1, Len(u))
       IN  /\ Len(rest) >= 2
           /\ Ch(rest, Len(rest)) = "/"
           /\ \A i \in 1..(Len(rest) - 1) : Ch(rest, i) \notin {"/", "?", "#"}

IsCanonical(u) == \E m \in {"/in/", "/pub/"} : CanonicalWith(u, m)

\* the same with the marker in any letter case
IsCanonicalAnyCase(u) ==
    \E m \in {"/in/", "/pub/"} :
        /\ Len(u) >= Len(CANONICAL_PREFIX \o m)
        /\ CanonicalWith(Lower(SubSeq(u, 1, Len(CANONICAL_PREFIX \o m)))
                            \o SubSeq(u, Len(CANONICAL_PREFIX \o m) + 1, Len(u)), m)
        /\ StartsWith(u, CANONICAL_PREFIX)

\* C7 as stated: a returned URL is canonical with a lower-case /in/ or /pub/
\* marker, and normalizing it again returns it unchanged
C7_AsStated ==
    /\ (pc \in {"normalized", "renormalized"} /\ normalized # None)
            => IsCanonical(Val(normalized))
    /\ pc = "renormalized" => renormalized = normalized

\* C7 amended: a returned URL is https://www.linkedin.com, then /in/ or /pub/
\* in the letter case of the input, one non-empty segment and exactly one
\* trailing slash, without query or fragment; normalizing it again returns it
\* unchanged
C7_CanonicalFixedPoint ==
    /\ (pc \in {"normalized", "renormalized"} /\ normalized # None)
            => IsCanonicalAnyCase(Val(normalized))
    /\ pc = "renormalized" => renormalized = normalized

C7_Witness ==
    /\ pc = "renormalized"
    /\ url = "//il.linkedin.com/IN/al-b c/?q#f"
    /\ renormalized = Some("https://www.linkedin.com/IN/al-b c/")

-----------------------------------------------------------------------------
(* Single-URL lookup: helpers of src/main.py *)

\* TLA+ strings are ASCII: "*" stands for the bullet U+2022 and "~" for the
\* middle dot U+00B7; no input uses "*" or "~" for anything else
BULLET == "*"
MIDDOT == "~"

SEPARATORS == <<".", "|", " - ", " " \o BULLET \o " ", " " \o MIDDOT \o " ">>

\* the validation without its path check
is_valid_linkedin_profile_url_DomainOnly(u) == Contains(Lower(u), "linkedin.com")

is_valid_linkedin_profile_url(u) ==
    /\ Contains(Lower(u), "linkedin.com")
    /\ Contains(Lower(u), "/in/") \/ Contains(Lower(u), "/pub/")

\* title.replace(" | LinkedIn", "").replace("| LinkedIn", "")
CleanTitle(title) == Remove(Remove(title, " | LinkedIn"), "| LinkedIn")

extract_full_name(title) ==
    LET t == Strip(CleanTitle(title))
    IN  IF Contains(t, " - ") THEN Strip(Split1(t, " - ")[1]) ELSE Strip(t)

\* (company, location) out of the rich-snippet extensions
extract_from_extensions(ext) ==
    IF Len(ext) >= 3
    THEN <<Some(Strip(ext[Len(ext) - 1])), Some(Strip(ext[Len(ext)]))>>
    ELSE IF Len(ext) = 2
    THEN LET m == Strip(ext[2])
         IN  IF \/ Contains(m, ",")
                \/ Contains(m, " " \o BULLET \o " ")
                \/ Contains(m, " " \o MIDDOT \o " ")
             THEN <<None, Some(m)>>
             ELSE <<Some(m), None>>
    ELSE <<None, None>>

\* for sep in [...]: if sep in s: s = s.split(sep, 1)[0]
RECURSIVE CutAtSeparators(_, _)
CutAtSeparators(s, seps) ==
    IF seps = <<>> THEN s
    ELSE CutAtSeparators(Split1(s, Head(seps))[1], Tail(seps))

\* [p.strip() for p in parts if p.strip()]
RECURSIVE StrippedNonBlank(_)
StrippedNonBlank(parts) ==
    IF parts = <<>> THEN <<>>
    ELSE (IF Strip(Head(parts)) # "" THEN <<Strip(Head(parts))>> ELSE <<>>)
            \o StrippedNonBlank(Tail(parts))

\* top.get("extensions") or rich_snippet.get("extensions") or []
ExtensionsOf(r) ==
    IF r.top_extensions # <<>> THEN r.top_extensions ELSE r.extensions

\* the company after steps 1 to 3
CompanyOf(r) ==
    LET e      == extract_from_extensions(ExtensionsOf(r))
        c1     == IF Truthy(e[1]) THEN e[1] ELSE None
        parts  == StrippedNonBlank(Split(CleanTitle(r.title), " - "))
        c2     == IF ~Truthy(c1) /\ Contains(r.title, " - ") /\ Len(parts) >= 3
                     /\ ~StartsWith(Lower(parts[Len(parts)]), "linkedin")
                  THEN Some(parts[Len(parts)]) ELSE c1
        cand   == Strip(CutAtSeparators(Split1(r.snippet, " at ")[2], SEPARATORS))
    IN  IF ~Truthy(c2) /\ Contains(r.snippet, " at ") /\ cand # ""
        THEN Some(cand) ELSE c2

\* extract_company_and_location; raised stands for the IndexError of
\* snippet.split("based in ", 1)[1] on a snippet without the lower-case phrase
extract_company_and_location(r) ==
    LET e    == extract_from_extensions(ExtensionsOf(r))
        l1   == IF Truthy(e[2]) THEN e[2] ELSE None
        hit  == ~Truthy(l1) /\ Contains(Lower(r.snippet), "based in ")
        sp   == Split1(r.snippet, "based in ")
    IN  IF hit /\ Len(sp) < 2
        THEN [raised |-> TRUE, company |-> None, location |-> None]
        ELSE [raised   |-> FALSE,
              company  |-> CompanyOf(r),
              location |-> IF hit /\ Strip(CutAtSeparators(sp[2], SEPARATORS)) # ""
                           THEN Some(Strip(CutAtSeparators(sp[2], SEPARATORS)))
                           ELSE l1]

\* "linkedin.com/in/" in link.lower() or "linkedin.com/in/" in displayed.lower()
PointsToProfile(r) ==
    \/ Contains(Lower(OrEmpty(r.link)), "linkedin.com/in/")
    \/ Contains(Lower(OrEmpty(r.displayed_link)), "linkedin.com/in/")

\* the first result that points to a profile, None when there is none
pick_best_linkedin_result(organic) ==
    IF \E k \in 1..Len(organic) : PointsToProfile(organic[k])
    THEN Some(organic[CHOOSE k \in 1..Len(organic) :
                        /\ PointsToProfile(organic[k])
                        /\ \A j \in 1..(k - 1) : ~PointsToProfile(organic[j])])
    ELSE None

\* best.get("link") or best.get("displayed_link") or profile_url
LinkOf(r, fallback) ==
    IF Truthy(r.link) THEN Val(r.link)
    ELSE IF Truthy(r.displayed_link) THEN Val(r.displayed_link)
    ELSE fallback

\* what pydantic's HttpUrl accepts, as far as the inputs here differ: an http
\* or https scheme followed by a host
HttpUrlValid(u) ==
    \E sch \in {"http://", "https://"} :
        StartsWith(Lower(u), sch) /\ Len(u) > Len(sch)

\* x or None
OrNone(x) == IF x = "" THEN None ELSE Some(x)

\* LinkedInMetadata(...) for the chosen result; raised is the IndexError of the
\* extraction or the ValidationError of profile_url
MetadataOf(r, fallback) ==
    LET cl == extract_company_and_location(r)
    IN  IF cl.raised THEN [raised |-> "IndexError", metadata |-> None]
        ELSE IF ~HttpUrlValid(LinkOf(r, fallback))
        THEN [raised |-> "ValidationError", metadata |-> None]
        ELSE [raised   |-> "",
              metadata |-> Some([full_name   |-> OrNone(extract_full_name(r.title)),
                                 headline    |-> OrNone(IF r.snippet # "" THEN r.snippet
                                                        ELSE r.title),
                                 company     |-> IF Truthy(cl.company) THEN cl.company ELSE None,
                                 location    |-> IF Truthy(cl.location) THEN cl.location ELSE None,
                                 profile_url |-> LinkOf(r, fallback)])]

LookupResponse(st, md, err) == [status |-> st, metadata |-> md, error |-> err]

-----------------------------------------------------------------------------
(* Single-URL lookup: the /lookup route *)

MaxOrganic == 2

\* an organic result of the provider (title and snippet are "" when missing)
Organic(t, sn, l, d, te, e) ==
    [title |-> t, snippet |-> sn, link |-> l, displayed_link |-> d,
     top_extensions |-> te, extensions |-> e]

OrganicPool ==
    {Organic("Al B - CEO - IBM | LinkedIn", "",
             Some("https://www.linkedin.com/in/alb"), None, <<>>, <<>>),
     Organic("Al B", "Head of Sales at Widgets Inc. Based in Austin, TX.",
             Some("https://www.linkedin.com/in/alb"), None, <<>>, <<>>),
     Organic("Al B | LinkedIn", "CEO at IBM - now based in Rome, IT * Ex-Acme",
             Some("https://il.linkedin.com/in/alb"), None, <<>>, <<"CEO", "IBM">>),
     Organic("Al B", "Based in Oslo.",
             Some("https://www.linkedin.com/in/alb"), None,
             <<"CEO", "IBM", "Rome, IT">>, <<>>),
     Organic("Al B - LinkedIn", "",
             None, Some("www.linkedin.com/in/alb"), <<>>, <<>>),
     Organic("IBM", "Al B works at IBM", Some("https://example.com/ibm"),
             Some("example.com"), <<>>, <<>>)}

ProfileUrls ==
    {"https://www.linkedin.com/in/alb", "https://www.linkedin.com/IN/alb",
     "https://www.linkedin.com/pub/al-b/1/2/3", "https://www.linkedin.com/company/ibm",
     "https://example.com/in/alb", "https://www.linkedin.com/",
     "https://example.com/?u=linkedin.com/in/alb"}

\* the bodies of a response: no JSON, a JSON array, a JSON object
Bodies ==
    {[kind |-> "text", organic |-> <<>>], [kind |-> "array", organic |-> <<>>]}
    \cup {[kind |-> "object", organic |-> o] : o \in ListsOver(OrganicPool, MaxOrganic)}

HTTP_OK == 200
StatusCodes == {HTTP_OK, 429}

LookupInit ==
    /\ pc = "start" /\ exc = ""
    /\ api_key \in {"", "key"}
    /\ profile_url \in ProfileUrls
    /\ serp = <<>> /\ provider_calls = 0 /\ best = <<>> /\ response = <<>>
    /\ finderIdle /\ normIdle

\* raise HTTPException(status_code=500, ...)
LookupNoKey ==
    /\ pc = "start"
    /\ api_key = ""
    /\ exc' = "HTTPException"
    /\ pc' = "raised"
    /\ UNCHANGED <<lookupVars, finderVars, normVars>>

LookupInvalidUrl ==
    /\ pc = "start"
    /\ api_key # ""
    /\ ~is_valid_linkedin_profile_url(profile_url)
    /\ response' = Some(LookupResponse("INVALID", None,
                        Some("profile_url is not a valid LinkedIn profile URL")))
    /\ pc' = "done"
    /\ UNCHANGED <<api_key, profile_url, serp, provider_calls, best, exc,
                   finderVars, normVars>>

\* requests.get raises requests.RequestException
LookupRequestFails ==
    /\ pc = "start"
    /\ api_key # ""
    /\ is_valid_linkedin_profile_url(profile_url)
    /\ provider_calls' = provider_calls + 1
    /\ serp' = Some([failed |-> TRUE, status_code |-> 0,
                     body |-> [kind |-> "text", organic |-> <<>>]])
    /\ response' = Some(LookupResponse("ERROR", None, Some("Error calling SerpAPI")))
    /\ pc' = "done"
    /\ UNCHANGED <<api_key, profile_url, best, exc, finderVars, normVars>>

\* requests.get returns a response
LookupRequestResponds ==
    /\ pc = "start"
    /\ api_key # ""
    /\ is_valid_linkedin_profile_url(profile_url)
    /\ provider_calls' = provider_calls + 1
    /\ \E st \in StatusCodes, b \in Bodies :
            serp' = Some([failed |-> FALSE, status_code |-> st, body |-> b])
    /\ pc' = "responded"
    /\ UNCHANGED <<api_key, profile_url, best, response, exc, finderVars, normVars>>

LookupNon200 ==
    /\ pc = "responded"
    /\ Val(serp).status_code # HTTP_OK
    /\ response' = Some(LookupResponse("ERROR", None, Some("SerpAPI returned HTTP")))
    /\ pc' = "done"
    /\ UNCHANGED <<api_key, profile_url, serp, provider_calls, best, exc,
                   finderVars, normVars>>

\* serp_resp.json() raises on a body that is no JSON; data.get raises on a
\* JSON value that is no object
LookupBodyUnreadable ==
    /\ pc = "responded"
    /\ Val(serp).status_code = HTTP_OK
    /\ Val(serp).body.kind # "object"
    /\ exc' = (IF Val(serp).body.kind = "text" THEN "JSONDecodeError"
               ELSE "AttributeError")
    /\ pc' = "raised"
    /\ UNCHANGED <<lookupVars, finderVars, normVars>>

LookupNoResult ==
    /\ pc = "responded"
    /\ Val(serp).status_code = HTTP_OK
    /\ Val(serp).body.kind = "object"
    /\ pick_best_linkedin_result(Val(serp).body.organic) = None
    /\ response' = Some(LookupResponse("INVALID", None,
                        Some("No LinkedIn profile result found for this URL")))
    /\ pc' = "done"
    /\ UNCHANGED <<api_key, profile_url, serp, provider_calls, best, exc,
                   finderVars, normVars>>

LookupMetadataRaises ==
    /\ pc = "responded"
    /\ Val(serp).status_code = HTTP_OK
    /\ Val(serp).body.kind = "object"
    /\ pick_best_linkedin_result(Val(serp).body.organic) # None
    /\ best' = pick_best_linkedin_result(Val(serp).body.organic)
    /\ MetadataOf(Val(best'), profile_url).raised # ""
    /\ exc' = MetadataOf(Val(best'), profile_url).raised
    /\ pc' = "raised"
    /\ UNCHANGED <<api_key, profile_url, serp, provider_calls, response,
                   finderVars, normVars>>

LookupValid ==
    /\ pc = "responded"
    /\ Val(serp).status_code = HTTP_OK
    /\ Val(serp).body.kind = "object"
    /\ pick_best_linkedin_result(Val(serp).body.organic) # None
    /\ best' = pick_best_linkedin_result(Val(serp).body.organic)
    /\ MetadataOf(Val(best'), profile_url).raised = ""
    /\ response' = Some(LookupResponse("VALID",
                        MetadataOf(Val(best'), profile_url).metadata, None))
    /\ pc' = "done"
    /\ UNCHANGED <<api_key, profile_url, serp, provider_calls, exc,
                   finderVars, normVars>>

LookupConfiguredNext ==
    \/ LookupInvalidUrl
    \/ LookupRequestFails
    \/ LookupRequestResponds
    \/ LookupNon200
    \/ LookupBodyUnreadable
    \/ LookupNoResult
    \/ LookupMetadataRaises
    \/ LookupValid

LookupNext == LookupNoKey \/ LookupConfiguredNext

\* the route on a server of either configuration
SpecLookup == LookupInit /\ [][LookupNext]_vars

\* the route on a server whose SERPAPI_API_KEY is set
LookupConfiguredInit == LookupInit /\ api_key # ""

SpecLookupConfigured == LookupConfiguredInit /\ [][LookupConfiguredNext]_vars

-----------------------------------------------------------------------------
(* Discovery: claims C1, C2, C10 under Spec *)

PassIndex(name) == CHOOSE i \in 1..Len(PASSES) : PASSES[i] = name

\* absent, empty or made of whitespace only
AbsentOrBlank(o) ==
    IF o = None THEN TRUE ELSE \A i \in 1..Len(Val(o)) : IsSpace(Ch(Val(o), i))

\* C1: the provider is invoked on the non-empty queries in the order A, B, C,
\* once per pass at most; a pass is invoked only after every earlier pass with
\* a non-empty query returned an empty list; the returned candidates are those
\* of the list the last invoked pass returned, which is empty only when every
\* non-empty query was tried
C1_PassOrder ==
    LET n == Len(calls)
    IN  /\ \A i \in 1..n :
            /\ calls[i].query # ""
            /\ calls[i].query = queries[PassIndex(calls[i].pass)]
            /\ \A k \in 1..(PassIndex(calls[i].pass) - 1) :
                   queries[k] # "" => \E j \in 1..(i - 1) : calls[j].pass = PASSES[k]
        /\ \A i, j \in 1..n : i < j => PassIndex(calls[i].pass) < PassIndex(calls[j].pass)
        /\ \A i \in 1..(n - 1) : calls[i].returned = <<>> /\ ~calls[i].raised
        /\ pc = "done" =>
            /\ n >= 1
            /\ ~calls[n].raised
            /\ ret = extract_considered_profile_urls(person, calls[n].returned)
            /\ calls[n].returned = <<>> =>
                   \A k \in 1..Len(queries) :
                       queries[k] # "" => \E j \in 1..n : calls[j].pass = PASSES[k]

\* passes A and B returned nothing, pass C one matching result: one URL
C1_Witness ==
    /\ pc = "done"
    /\ Len(calls) = 3
    /\ calls[1].returned = <<>> /\ calls[2].returned = <<>>
    /\ Len(calls[3].returned) = 1
    /\ ret = <<"https://www.linkedin.com/in/alb/">>

\* C2: a call whose full name is absent, empty or whitespace-only ends with
\* ValueError and never invokes the provider
C2_BlankNameRejected ==
    AbsentOrBlank(person.full_name) =>
        /\ calls = <<>>
        /\ pc \in {"start", "raised"}
        /\ pc = "raised" => exc = "ValueError"

C2_Witness ==
    /\ pc = "raised" /\ exc = "ValueError"
    /\ person.full_name = Some(" ")
    /\ calls = <<>>

\* no whitespace at either end and no two whitespace characters in a row
WellSpaced(q) ==
    /\ q # "" => ~IsSpace(Ch(q, 1)) /\ ~IsSpace(Ch(q, Len(q)))
    /\ \A i \in 1..(Len(q) - 1) : ~(IsSpace(Ch(q, i)) /\ IsSpace(Ch(q, i + 1)))

\* C10: every non-empty query of the three passes has no leading or trailing
\* whitespace and no run of two or more whitespace characters
C10_QueriesWellSpaced ==
    \A i \in 1..Len(queries) : queries[i] # "" => WellSpaced(queries[i])

-----------------------------------------------------------------------------
(* Extraction: claims C3, C6, C8 under SpecExtract *)

\* positions of the results that are candidates for the URL u
CandidatesOf(u) ==
    {k \in 1..Len(results) :
        /\ IsCandidate(person, results[k])
        /\ normalize_linkedin_profile_url(results[k].link) = Some(u)}

Max(S) == CHOOSE x \in S : \A y \in S : y <= x
MinOf(S) == CHOOSE x \in S : \A y \in S : x <= y

BestScore(u) == Max({score_candidate(person, results[k]) : k \in CandidatesOf(u)})

\* position of the first result that gives u its best score
FirstBest(u) ==
    MinOf({k \in CandidatesOf(u) : score_candidate(person, results[k]) = BestScore(u)})

C3_TieWitness ==
    /\ pc = "done"
    /\ Len(ret) = 2
    /\ BestScore(ret[1]) = BestScore(ret[2])

\* the normalized full name is a contiguous part of the normalized title
NameInTitle(title, full_name) ==
    LET t == _normalize_text(title)
        n == _normalize_text(full_name)
    IN  \E i \in 1..(Len(t) - Len(n) + 1) : SubSeq(t, i, i + Len(n) - 1) = n

\* C6: every returned URL is the normalization of the link of some input
\* result whose normalized title contains the normalized full name
C6_OnlyGatedResults ==
    pc = "done" =>
        \A i \in 1..Len(ret) :
            \E k \in 1..Len(results) :
                /\ NameInTitle(results[k].title, Val(person.full_name))
                /\ normalize_linkedin_profile_url(results[k].link) = Some(ret[i])

\* a result with the top score whose title lacks the name, and a result with
\* a matching title whose link is no profile URL, are both left out
C6_Witness ==
    /\ pc = "done"
    /\ ret = <<>>
    /\ Len(results) = 2
    /\ ~NameInTitle(results[1].title, Val(person.full_name))
    /\ normalize_linkedin_profile_url(results[1].link) # None
    /\ score_candidate(person, results[1]) = MAX_SCORE
    /\ NameInTitle(results[2].title, Val(person.full_name))
    /\ normalize_linkedin_profile_url(results[2].link) = None

OptionalFields == {"company_or_university", "title_or_role", "location", "email"}

\* C8: every score lies between the baseline and 1.0, and the score of a
\* result for the person is at least its score for the same person without
\* one of the optional fields
C8_ScoreBoundedMonotone ==
    /\ \A i \in 1..Len(urls) : urls[i][1] >= BASELINE /\ urls[i][1] <= MAX_SCORE
    /\ \A k \in 1..Len(results) :
        /\ score_candidate(person, results[k]) >= BASELINE
        /\ score_candidate(person, results[k]) <= MAX_SCORE
        /\ \A f \in OptionalFields :
                score_candidate([person EXCEPT ![f] = None], results[k])
                    <= score_candidate(person, results[k])

\* a candidate whose bonuses add up to more than 1.0 is scored 1.0, and a
\* matching field raised its score
C8_Witness ==
    /\ pc = "done"
    /\ \E i \in 1..Len(urls) : urls[i][1] = MAX_SCORE
    /\ \E k \in 1..Len(results) :
        /\ IsCandidate(person, results[k])
        /\ RawScore(person, results[k]) > MAX_SCORE
        /\ score_candidate([person EXCEPT !.email = None], results[k]) < MAX_SCORE

-----------------------------------------------------------------------------
(* Lookup: claim C5 under SpecLookup, claims C4 and C9 under               *)
(* SpecLookupConfigured                                                    *)

\* the provider did not deliver a readable 200 response
ProviderFailed ==
    /\ serp # None
    /\ \/ Val(serp).failed
       \/ Val(serp).status_code # HTTP_OK
       \/ Val(serp).body.kind # "object"

\* C4: the lookup never throws; a finished request has status VALID, INVALID
\* or ERROR, and a provider failure (transport failure, non-success status,
\* malformed body) ends as status ERROR with an error message
C4_NeverThrows ==
    /\ pc # "raised" /\ exc = ""
    /\ pc = "done" => Val(response).status \in {"VALID", "INVALID", "ERROR"}
    /\ (pc \in {"done", "raised"} /\ ProviderFailed) =>
            /\ response # None
            /\ Val(response).status = "ERROR"
            /\ Val(response).error # None

\* the URL as written lacks linkedin.com, or lacks both /in/ and /pub/
LacksMarkers(u) ==
    \/ ~Contains(u, "linkedin.com")
    \/ ~Contains(u, "/in/") /\ ~Contains(u, "/pub/")

BASED_IN == "based in "

\* position of the first separator in s, Len(s) + 1 when there is none
FirstSeparator(s) ==
    LET at(i) == \E k \in 1..Len(SEPARATORS) :
                    SubSeq(s, i, i + Len(SEPARATORS[k]) - 1) = SEPARATORS[k]
    IN  IF \E i \in 1..Len(s) : at(i)
        THEN CHOOSE i \in 1..Len(s) : at(i) /\ \A j \in 1..(i - 1) : ~at(j)
        ELSE Len(s) + 1

\* the text after the first "based in " of any letter case, up to the first
\* separator, trimmed
TextAfterBasedIn(sn) ==
    LET after == SubSeq(sn, Find(Lower(sn), BASED_IN) + Len(BASED_IN), Len(sn))
    IN  Strip(SubSeq(after, 1, FirstSeparator(after) - 1))

\* C9: for a result whose snippet contains "based in " in any letter case and
\* whose extensions give no location, the extraction does not raise and the
\* location is the text after the phrase, cut at the first separator, trimmed
C9_BasedInLocation ==
    (/\ best # None
     /\ Contains(Lower(Val(best).snippet), BASED_IN)
     /\ ~Truthy(extract_from_extensions(ExtensionsOf(Val(best)))[2])) =>
        /\ exc # "IndexError"
        /\ pc = "done" =>
              Val(Val(response).metadata).location
                    = OrNone(TextAfterBasedIn(Val(best).snippet))

====
